---- MODULE Spec2Model ----
(***************************************************************************)
(* Model of rest_server.mjs: the REST handlers over the St. Paul crime     *)
(* database.  The specifications of the module:                            *)
(*   Spec      the check-then-write protocol of PUT /new-incident and      *)
(*             DELETE /remove-incident, with requests in flight together;  *)
(*   SpecRead  the SQL text and parameter list the three GET handlers      *)
(*             build from a query string, and the answer they send;        *)
(*   SpecAll   the five handlers together, a GET in flight with the        *)
(*             mutations;                                                  *)
(*   SpecAllFair  SpecAll where every store operation issued completes.    *)
(* Text is a sequence of one-character strings, so that split, trim,       *)
(* parseInt and the store's DATE()/TIME() are computed character by        *)
(* character.                                                              *)
(***************************************************************************)
EXTENDS Integers, Sequences, FiniteSets, Bags, TLC

VARIABLES
    incidents,         \* the Incidents table: a bag of rows
    uniqueConstraint,  \* whether the schema of the database file makes case_number
                       \* unique: the file is opened, never created, by the server
    req,               \* per request slot: the handler's position and locals
    res,               \* the response written in the current tick: <<>> or <<response>>
    codes,             \* the Codes table: a set of rows
    neighborhoods,     \* the Neighborhoods table: a set of rows
    rd                 \* the GET request being served (SpecRead)

vars == <<incidents, uniqueConstraint, req, res, codes, neighborhoods, rd>>

(***************************************************************************)
(* Bounds                                                                  *)
(***************************************************************************)
\* number of mutation requests that can be in flight together
MaxInFlight == 2

\* length of the comma-separated texts given to /codes and /neighborhoods
MaxListLen == 3

Slots == 1..MaxInFlight

(***************************************************************************)
(* Text helpers                                                            *)
(***************************************************************************)
DigitChars == <<"0", "1", "2", "3", "4", "5", "6", "7", "8", "9">>

IsDigit(c) == \E i \in 1..10 : DigitChars[i] = c

DigitVal(c) == (CHOOSE i \in 1..10 : DigitChars[i] = c) - 1

\* the value of the n digits of s from position i on, or -1 when they are not n digits
GetDigits(s, i, n) ==
    IF i + n - 1 > Len(s) \/ \E k \in i..(i + n - 1) : ~IsDigit(s[k])
    THEN -1
    ELSE IF n = 2 THEN 10 * DigitVal(s[i]) + DigitVal(s[i + 1])
         ELSE 1000 * DigitVal(s[i]) + 100 * DigitVal(s[i + 1])
              + 10 * DigitVal(s[i + 2]) + DigitVal(s[i + 3])

Pad2(n) == <<DigitChars[(n \div 10) + 1], DigitChars[(n % 10) + 1]>>

Pad4(n) == Pad2(n \div 100) \o Pad2(n % 100)

\* the SQL NULL a date function returns for a text it cannot parse
Null == <<"null">>

(***************************************************************************)
(* The store's DATE() and TIME() of a stored date_time text                *)
(* (SELECT DATE(date_time) as date, TIME(date_time) as time).              *)
(* The text is read as YYYY-MM-DD, then blanks or 'T', then HH:MM,         *)
(* HH:MM:SS or HH:MM:SS.fff; anything else gives NULL.  A zone suffix      *)
(* ([+-]HH:MM), which would shift the time, is not in any input set of     *)
(* this model and is answered NULL here.                                   *)
(***************************************************************************)
RECURSIVE SkipWhile(_, _, _)
SkipWhile(s, i, chars) ==
    IF i <= Len(s) /\ s[i] \in chars THEN SkipWhile(s, i + 1, chars) ELSE i

CharAt(s, i) == IF i >= 1 /\ i <= Len(s) THEN s[i] ELSE ""

DigitSet == {DigitChars[d] : d \in 1..10}

\* whether HH:MM at position i is followed by :SS
SecondsGiven(s, i) == CharAt(s, i + 5) = ":"

\* the position after the fraction .fff that may follow the seconds ending before j
AfterFraction(s, j, hasSec) ==
    IF hasSec /\ CharAt(s, j) = "." /\ IsDigit(CharAt(s, j + 1))
    THEN SkipWhile(s, j + 1, DigitSet)
    ELSE j

\* the position after a zone letter Z and the blanks around it
AfterZone(s, e) ==
    IF CharAt(s, e) \in {"Z", "z"} THEN SkipWhile(s, e + 1, {" "}) ELSE e

\* the position after the time that starts at position i
TimeEnd(s, i) ==
    AfterZone(s, SkipWhile(s, AfterFraction(s, IF SecondsGiven(s, i) THEN i + 8 ELSE i + 5,
                                            SecondsGiven(s, i)), {" "}))

\* the time read, valid when it is shaped HH:MM[:SS[.fff]] to the end of the
\* text with hours to 24, minutes and seconds to 59
HmsOf(h, m, sec, shaped) ==
    [ok |-> shaped /\ h >= 0 /\ h <= 24 /\ m >= 0 /\ m <= 59 /\ sec >= 0 /\ sec <= 59,
     h  |-> h, m |-> m, s |-> sec]

\* HH:MM[:SS[.fff]] from position i to the end of s
ParseHhMmSs(s, i) ==
    HmsOf(GetDigits(s, i, 2), GetDigits(s, i + 3, 2),
          IF SecondsGiven(s, i) THEN GetDigits(s, i + 6, 2) ELSE 0,
          CharAt(s, i + 2) = ":" /\ TimeEnd(s, i) > Len(s))

IsLeap(y) == (y % 4 = 0 /\ y % 100 # 0) \/ y % 400 = 0

DaysInMonth(y, m) ==
    IF m = 2 THEN (IF IsLeap(y) THEN 29 ELSE 28)
    ELSE IF m \in {4, 6, 9, 11} THEN 30 ELSE 31

\* the date and time read: valid when the date is shaped YYYY-MM-DD with a month
\* to 12 and a day to 31, and is followed by a valid time or by nothing
DateTimeOf(Y, M, D, dashes, t, dateOnly) ==
    [ok |-> /\ dashes /\ Y >= 0 /\ M >= 1 /\ M <= 12 /\ D >= 1 /\ D <= 31
            /\ (t.ok \/ dateOnly),
     Y  |-> Y, M |-> M, D |-> D,
     h  |-> IF t.ok THEN t.h ELSE 0,
     m  |-> IF t.ok THEN t.m ELSE 0,
     s  |-> IF t.ok THEN t.s ELSE 0]

\* YYYY-MM-DD[( |T)*[time]]: the fields as written
ParseDateTime(s) ==
    DateTimeOf(GetDigits(s, 1, 4), GetDigits(s, 6, 2), GetDigits(s, 9, 2),
               CharAt(s, 5) = "-" /\ CharAt(s, 8) = "-",
               ParseHhMmSs(s, SkipWhile(s, 11, {" ", "T"})),
               SkipWhile(s, 11, {" ", "T"}) > Len(s))

YmdText(Y, M, D) == Pad4(Y) \o <<"-">> \o Pad2(M) \o <<"-">> \o Pad2(D)

\* the date of day d1 of month M, d1 being at most one month's length past its end
NormalDate(Y, M, d1, dim) ==
    IF d1 <= dim THEN YmdText(Y, M, d1)
    ELSE IF M = 12 THEN YmdText(Y + 1, 1, d1 - dim)
    ELSE YmdText(Y, M + 1, d1 - dim)

\* the date of a text read as p: as written when its day is at most 28, else
\* renormalised through the day count, hour 24 counting as the next day
\* (2023-02-30 is 2023-03-02)
DateText(p) ==
    IF ~p.ok THEN Null
    ELSE IF p.D <= 28 THEN YmdText(p.Y, p.M, p.D)
    ELSE NormalDate(p.Y, p.M, p.D + (IF p.h = 24 THEN 1 ELSE 0), DaysInMonth(p.Y, p.M))

\* the time of a text read as p: HH:MM:SS as written, the fraction dropped;
\* 00:00:00 when the text holds a date only
TimeText(p) ==
    IF ~p.ok THEN Null
    ELSE Pad2(p.h) \o <<":">> \o Pad2(p.m) \o <<":">> \o Pad2(p.s)

\* DATE(text)
SqlDate(s) == DateText(ParseDateTime(s))

\* TIME(text)
SqlTime(s) == TimeText(ParseDateTime(s))

(***************************************************************************)
(* Request bodies of the mutation endpoints                                *)
(***************************************************************************)
D_0105 == <<"2", "0", "2", "3", "-", "0", "1", "-", "0", "5">>
D_0229 == <<"2", "0", "2", "4", "-", "0", "2", "-", "2", "9">>
D_0230 == <<"2", "0", "2", "3", "-", "0", "2", "-", "3", "0">>
T_123000 == <<"1", "2", ":", "3", "0", ":", "0", "0">>
T_080509 == <<"0", "8", ":", "0", "5", ":", "0", "9">>
T_1230 == <<"1", "2", ":", "3", "0">>

Body(cn, d, t, code, inc, grid, nb, blk) ==
    [case_number |-> cn, date |-> d, time |-> t, code |-> code, incident |-> inc,
     police_grid |-> grid, neighborhood_number |-> nb, block |-> blk]

\* the bodies a client sends to PUT /new-incident: two with a calendar date and a
\* full HH:MM:SS time, one with a day past the end of its month and a short time
PutBodies ==
    { Body("A", D_0105, T_123000, 110, "Theft", 87, 7, "9XX UNIVERSITY"),
      Body("A", D_0230, T_1230, 600, "Vandalism", 12, 3, "1XX GRAND"),
      Body("B", D_0229, T_080509, 600, "Vandalism", 12, 3, "1XX GRAND") }

CaseNumbers == {b.case_number : b \in PutBodies}

\* the bodies a client sends to DELETE /remove-incident
DeleteBodies == {[case_number |-> cn] : cn \in CaseNumbers}

(***************************************************************************)
(* The store: dbSelect and dbRun on the Incidents table                    *)
(***************************************************************************)
\* SELECT case_number FROM Incidents WHERE case_number = ?
SelectCaseNumber(table, cn) ==
    LET n == BagCardinality([r \in {x \in BagToSet(table) : x.case_number = cn} |-> table[r]])
    IN  [i \in 1..n |-> [case_number |-> cn]]

\* the uniqueness constraint of the schema, where the database file has one: a
\* row whose case_number is already in the table is refused
SchemaRejects(table, row, unique) ==
    unique /\ \E x \in BagToSet(table) : x.case_number = row.case_number

InsertIncident_Replace(table, row, unique) ==
    [err |-> FALSE, table |-> SetToBag({row})]

\* INSERT INTO Incidents (...) VALUES (?, ?, ?, ?, ?, ?, ?): the row is added,
\* or the statement fails and the table is as it was
InsertIncident(table, row, unique) ==
    IF SchemaRejects(table, row, unique)
    THEN [err |-> TRUE, table |-> table]
    ELSE [err |-> FALSE, table |-> table (+) SetToBag({row})]

DeleteIncident_All(table, cn) == EmptyBag

\* DELETE FROM Incidents WHERE case_number = ?: no error when no row matches
DeleteIncident(table, cn) ==
    [r \in {x \in BagToSet(table) : x.case_number # cn} |-> table[r]]

(***************************************************************************)
(* The handlers' decisions                                                 *)
(***************************************************************************)
InsertParams_DateOnly(body) ==
    [case_number |-> body.case_number,
     date_time |-> body.date,
     code |-> body.code, incident |-> body.incident,
     police_grid |-> body.police_grid,
     neighborhood_number |-> body.neighborhood_number,
     block |-> body.block]

\* let dateTime = req.body.date + 'T' + req.body.time; let params = [...]
InsertParams(body) ==
    [case_number |-> body.case_number,
     date_time |-> body.date \o <<"T">> \o body.time,
     code |-> body.code, incident |-> body.incident,
     police_grid |-> body.police_grid,
     neighborhood_number |-> body.neighborhood_number,
     block |-> body.block]

PutCheckFound_OffByOne(existing) == Len(existing) > 1

\* if (existing.length > 0) in PUT /new-incident
PutCheckFound(existing) == Len(existing) > 0

DeleteCheckMissing_Never(existing) == Len(existing) < 0

\* if (existing.length === 0) in DELETE /remove-incident
DeleteCheckMissing(existing) == Len(existing) = 0

\* rows.map(row => ({...})) of GET /incidents on one stored row
ShapeIncident(row) ==
    [case_number |-> row.case_number,
     date |-> SqlDate(row.date_time), time |-> SqlTime(row.date_time),
     code |-> row.code, incident |-> row.incident,
     police_grid |-> row.police_grid,
     neighborhood_number |-> row.neighborhood_number,
     block |-> row.block]

MsgExists == "Case number already exists"
MsgMissing == "Case number does not exist"
MsgInsertError_AsExists == MsgExists
MsgInsertError == "Error inserting incident"
MsgDeleteError_AsMissing == MsgMissing
MsgDeleteError == "Error deleting incident"
MsgOK == "OK"

(***************************************************************************)
(* Request slots                                                           *)
(***************************************************************************)
NoBody == [case_number |-> ""]

Idle == [pc |-> "idle", kind |-> "none", body |-> NoBody,
         overlapped |-> FALSE, found |-> 0, writes |-> 0]

InFlight(s) == req[s].pc # "idle"

\* slot r takes a request; it and every request in flight with it are overlapped
Accept(r, kind, body) ==
    [s \in Slots |->
        IF s = r
        THEN [pc |-> "check", kind |-> kind, body |-> body,
              overlapped |-> \E o \in Slots \ {r} : InFlight(o), found |-> 0, writes |-> 0]
        ELSE IF InFlight(s) THEN [req[s] EXCEPT !.overlapped = TRUE] ELSE req[s]]

\* res.status(status).type('txt').send(text) of the request in slot r, with what
\* the request did: the rows its pre-check read (-1 when the read failed), the writes it issued, the store
\* fault it met ("none", "io": the store call failed, "constraint": the insert was
\* rejected by the schema)
Response(r, found, status, text, fault) ==
    [slot |-> r, kind |-> req[r].kind, body |-> req[r].body,
     status |-> status, text |-> text, fault |-> fault,
     overlapped |-> req[r].overlapped, found |-> found, writes |-> req[r].writes]

\* the handler returns after sending
Answer(r, found, status, text, fault) ==
    /\ res' = <<Response(r, found, status, text, fault)>>
    /\ req' = [req EXCEPT ![r] = Idle]

(***************************************************************************)
(* PUT /new-incident                                                       *)
(***************************************************************************)
\* the request arrives and the pre-check read is issued
PutReceive(r, b) ==
    /\ res = <<>>
    /\ ~InFlight(r)
    /\ req' = Accept(r, "PUT", b)
    /\ UNCHANGED <<incidents, uniqueConstraint, res, codes, neighborhoods, rd>>

PutCheck_NoReturn(r) ==
    /\ res = <<>>
    /\ req[r].kind = "PUT" /\ req[r].pc = "check"
    /\ LET existing == SelectCaseNumber(incidents, req[r].body.case_number)
       IN  /\ req' = [req EXCEPT ![r].pc = "write", ![r].found = Len(existing),
                                  ![r].writes = 1]
           /\ res' = IF PutCheckFound(existing)
                     THEN <<Response(r, Len(existing), 500, MsgExists, "none")>>
                     ELSE res
    /\ UNCHANGED <<incidents, uniqueConstraint, codes, neighborhoods, rd>>

\* the pre-check read completes: answer 'already exists', or issue the insert
PutCheck(r) ==
    /\ res = <<>>
    /\ req[r].kind = "PUT" /\ req[r].pc = "check"
    /\ LET existing == SelectCaseNumber(incidents, req[r].body.case_number)
       IN  IF PutCheckFound(existing)
           THEN Answer(r, Len(existing), 500, MsgExists, "none")
           ELSE /\ req' = [req EXCEPT ![r].pc = "write", ![r].found = Len(existing),
                                      ![r].writes = 1]
                /\ res' = res
    /\ UNCHANGED <<incidents, uniqueConstraint, codes, neighborhoods, rd>>

PutCheckFail_Uncaught(r) ==
    /\ res = <<>>
    /\ req[r].kind = "PUT" /\ req[r].pc = "check"
    /\ req' = [req EXCEPT ![r].pc = "failed"]
    /\ UNCHANGED <<incidents, uniqueConstraint, res, codes, neighborhoods, rd>>

\* the pre-check read fails: the catch branch answers
PutCheckFail(r) ==
    /\ res = <<>>
    /\ req[r].kind = "PUT" /\ req[r].pc = "check"
    /\ Answer(r, -1, 500, MsgInsertError, "io")
    /\ UNCHANGED <<incidents, uniqueConstraint, codes, neighborhoods, rd>>

\* the insert completes: the row is stored, or the schema rejects it
PutInsert(r) ==
    /\ res = <<>>
    /\ req[r].kind = "PUT" /\ req[r].pc = "write"
    /\ LET out == InsertIncident(incidents, InsertParams(req[r].body), uniqueConstraint)
       IN  IF out.err
           THEN /\ Answer(r, req[r].found, 500, MsgInsertError, "constraint")
                /\ incidents' = incidents
           ELSE /\ Answer(r, req[r].found, 200, MsgOK, "none")
                /\ incidents' = out.table
    /\ UNCHANGED <<uniqueConstraint, codes, neighborhoods, rd>>

PutInsertFail_Retry(r) ==
    /\ res = <<>>
    /\ req[r].kind = "PUT" /\ req[r].pc = "write" /\ req[r].writes < 2
    /\ req' = [req EXCEPT ![r].writes = @ + 1]
    /\ UNCHANGED <<incidents, uniqueConstraint, res, codes, neighborhoods, rd>>

\* the insert fails in the store: nothing is stored
PutInsertFail(r) ==
    /\ res = <<>>
    /\ req[r].kind = "PUT" /\ req[r].pc = "write"
    /\ Answer(r, req[r].found, 500, MsgInsertError, "io")
    /\ UNCHANGED <<incidents, uniqueConstraint, codes, neighborhoods, rd>>

(***************************************************************************)
(* DELETE /remove-incident                                                 *)
(***************************************************************************)
DeleteReceive(r, b) ==
    /\ res = <<>>
    /\ ~InFlight(r)
    /\ req' = Accept(r, "DELETE", b)
    /\ UNCHANGED <<incidents, uniqueConstraint, res, codes, neighborhoods, rd>>

\* the pre-check read completes: answer 'does not exist', or issue the delete
DeleteCheck(r) ==
    /\ res = <<>>
    /\ req[r].kind = "DELETE" /\ req[r].pc = "check"
    /\ LET existing == SelectCaseNumber(incidents, req[r].body.case_number)
       IN  IF DeleteCheckMissing(existing)
           THEN Answer(r, Len(existing), 500, MsgMissing, "none")
           ELSE /\ req' = [req EXCEPT ![r].pc = "write", ![r].found = Len(existing),
                                      ![r].writes = 1]
                /\ res' = res
    /\ UNCHANGED <<incidents, uniqueConstraint, codes, neighborhoods, rd>>

DeleteCheckFail(r) ==
    /\ res = <<>>
    /\ req[r].kind = "DELETE" /\ req[r].pc = "check"
    /\ Answer(r, -1, 500, MsgDeleteError, "io")
    /\ UNCHANGED <<incidents, uniqueConstraint, codes, neighborhoods, rd>>

DeleteRun_NoRowIsFailure(r) ==
    /\ res = <<>>
    /\ req[r].kind = "DELETE" /\ req[r].pc = "write"
    /\ incidents' = DeleteIncident(incidents, req[r].body.case_number)
    /\ IF Len(SelectCaseNumber(incidents, req[r].body.case_number)) = 0
       THEN Answer(r, req[r].found, 500, MsgDeleteError, "none")
       ELSE Answer(r, req[r].found, 200, MsgOK, "none")
    /\ UNCHANGED <<uniqueConstraint, codes, neighborhoods, rd>>

\* the delete completes, whether or not a row still matched
DeleteRun(r) ==
    /\ res = <<>>
    /\ req[r].kind = "DELETE" /\ req[r].pc = "write"
    /\ incidents' = DeleteIncident(incidents, req[r].body.case_number)
    /\ Answer(r, req[r].found, 200, MsgOK, "none")
    /\ UNCHANGED <<uniqueConstraint, codes, neighborhoods, rd>>

DeleteRunFail_Removes(r) ==
    /\ res = <<>>
    /\ req[r].kind = "DELETE" /\ req[r].pc = "write"
    /\ incidents' = DeleteIncident(incidents, req[r].body.case_number)
    /\ Answer(r, req[r].found, 500, MsgDeleteError, "io")
    /\ UNCHANGED <<uniqueConstraint, codes, neighborhoods, rd>>

\* the delete fails in the store: nothing is removed
DeleteRunFail(r) ==
    /\ res = <<>>
    /\ req[r].kind = "DELETE" /\ req[r].pc = "write"
    /\ Answer(r, req[r].found, 500, MsgDeleteError, "io")
    /\ UNCHANGED <<incidents, uniqueConstraint, codes, neighborhoods, rd>>

\* the response leaves the process before the next callback runs
Flush ==
    /\ res # <<>>
    /\ res' = <<>>
    /\ UNCHANGED <<incidents, uniqueConstraint, req, codes, neighborhoods, rd>>

NoRead == [pc |-> "none"]

CodeRows ==
    {[code |-> 1, incident_type |-> "Murder"], [code |-> 2, incident_type |-> "Rape"],
     [code |-> 12, incident_type |-> "Theft"]}

NeighborhoodRows ==
    {[neighborhood_number |-> 1, neighborhood_name |-> "Conway"],
     [neighborhood_number |-> 2, neighborhood_name |-> "Greater East Side"]}

Init ==
    /\ incidents = EmptyBag
    /\ uniqueConstraint \in BOOLEAN
    /\ req = [s \in Slots |-> Idle]
    /\ res = <<>>
    /\ codes = CodeRows
    /\ neighborhoods = NeighborhoodRows
    /\ rd = NoRead

Next ==
    \/ \E r \in Slots, b \in PutBodies : PutReceive(r, b)
    \/ \E r \in Slots : PutCheck(r)
    \/ \E r \in Slots : PutCheckFail(r)
    \/ \E r \in Slots : PutInsert(r)
    \/ \E r \in Slots : PutInsertFail(r)
    \/ \E r \in Slots, b \in DeleteBodies : DeleteReceive(r, b)
    \/ \E r \in Slots : DeleteCheck(r)
    \/ \E r \in Slots : DeleteCheckFail(r)
    \/ \E r \in Slots : DeleteRun(r)
    \/ \E r \in Slots : DeleteRunFail(r)
    \/ Flush

Spec == Init /\ [][Next]_vars


(***************************************************************************)
(* Query strings of the GET endpoints.  A parameter is <<>> when the key   *)
(* is absent and <<text>> when it is given; the handlers test it with      *)
(* if (req.query.x), which is false for an absent key and for ''.          *)
(***************************************************************************)
Absent == <<>>

Given(text) == <<text>>

\* if (req.query.x)
Truthy(p) == p # Absent /\ p[1] # <<>>

RECURSIVE SeqsUpTo(_, _)
\* the texts over the characters chars of length at most n
SeqsUpTo(chars, n) ==
    IF n = 0 THEN {<<>>}
    ELSE LET shorter == SeqsUpTo(chars, n - 1)
         IN  shorter \cup {Append(t, c) : t \in {u \in shorter : Len(u) = n - 1}, c \in chars}

(***************************************************************************)
(* String.prototype.split(','), trim() and parseInt()                      *)
(***************************************************************************)
RECURSIVE SplitFrom(_, _, _)
\* the elements of s from position i on, cur being the element under way
SplitFrom(s, i, cur) ==
    IF i > Len(s) THEN <<cur>>
    ELSE IF s[i] = "," THEN <<cur>> \o SplitFrom(s, i + 1, <<>>)
    ELSE SplitFrom(s, i + 1, Append(cur, s[i]))

\* s.split(','): one element more than s has commas, empty elements kept
SplitComma(s) == SplitFrom(s, 1, <<>>)

RECURSIVE TrimEnd(_)
TrimEnd(s) == IF s # <<>> /\ s[Len(s)] = " " THEN TrimEnd(SubSeq(s, 1, Len(s) - 1)) ELSE s

\* s.trim()
Trim(s) ==
    LET i == SkipWhile(s, 1, {" "})
    IN  TrimEnd(SubSeq(s, i, Len(s)))

RECURSIVE DigitsValue(_, _, _)
\* the value of the digits of s from position i on, up to the first non-digit
DigitsValue(s, i, acc) ==
    IF i <= Len(s) /\ IsDigit(s[i]) THEN DigitsValue(s, i + 1, 10 * acc + DigitVal(s[i])) ELSE acc

\* parseInt(text): blanks, an optional sign, then the leading digits; NaN when
\* there is no digit there
ParseInt(s) ==
    LET i    == SkipWhile(s, 1, {" "})
        neg  == CharAt(s, i) = "-"
        j    == IF CharAt(s, i) \in {"-", "+"} THEN i + 1 ELSE i
    IN  IF ~IsDigit(CharAt(s, j)) THEN [nan |-> TRUE, n |-> 0]
        ELSE [nan |-> FALSE,
              n |-> IF neg THEN 0 - DigitsValue(s, j, 0) ELSE DigitsValue(s, j, 0)]

RECURSIVE NatText(_)
NatText(n) == IF n < 10 THEN <<DigitChars[n + 1]>> ELSE Append(NatText(n \div 10), DigitChars[(n % 10) + 1])

\* `${limit}`: the number as a template literal writes it
NumberText(v) ==
    IF v.nan THEN <<"N", "a", "N">>
    ELSE IF v.n < 0 THEN <<"-">> \o NatText(0 - v.n) ELSE NatText(v.n)

(***************************************************************************)
(* The SQL text the GET handlers build: a sequence of fragments, each '?'  *)
(* a fragment of its own, and the limit written character by character.    *)
(***************************************************************************)
DefaultLimit == 1000

RECURSIVE Flatten(_)
Flatten(lists) == IF lists = <<>> THEN <<>> ELSE lists[1] \o Flatten(Tail(lists))

\* codes.map(() => '?').join(',')
Placeholders(elems) ==
    [i \in 1..(2 * Len(elems) - 1) |-> IF i % 2 = 1 THEN "?" ELSE ","]

ListElements_NoTrim(p) == SplitComma(p[1])

\* req.query.x.split(',').map(c => c.trim())
ListElements(p) ==
    LET parts == SplitComma(p[1])
    IN  [i \in 1..Len(parts) |-> Trim(parts[i])]

InClause_Inline(column, elems) ==
    <<column \o " IN (">> \o Flatten([i \in 1..Len(elems) |-> elems[i] \o <<",">>]) \o <<")">>

\* `<column> IN (${placeholders})`
InClause(column, elems) == <<column \o " IN (">> \o Placeholders(elems) \o <<")">>

RECURSIVE JoinAnd(_)
\* whereClauses.join(' AND ')
JoinAnd(clauses) ==
    IF Len(clauses) = 0 THEN <<>>
    ELSE IF Len(clauses) = 1 THEN clauses[1]
    ELSE clauses[1] \o <<" AND ">> \o JoinAnd(Tail(clauses))

\* GET /codes: the statement and its parameters
BuildCodes(q) ==
    LET elems == IF Truthy(q.code) THEN ListElements(q.code) ELSE <<>>
    IN  [sql |-> <<"SELECT code, incident_type FROM Codes">>
                 \o (IF Truthy(q.code)
                     THEN <<" WHERE ">> \o InClause("code", elems) ELSE <<>>)
                 \o <<" ORDER BY code">>,
         params |-> elems]

\* GET /neighborhoods: the statement and its parameters
BuildNeighborhoods(q) ==
    LET elems == IF Truthy(q.id) THEN ListElements(q.id) ELSE <<>>
    IN  [sql |-> <<"SELECT neighborhood_number, neighborhood_name FROM Neighborhoods">>
                 \o (IF Truthy(q.id)
                     THEN <<" WHERE ">> \o InClause("neighborhood_number", elems) ELSE <<>>)
                 \o <<" ORDER BY neighborhood_number">>,
         params |-> elems]

\* let limit = req.query.limit ? parseInt(req.query.limit) : 1000
LimitOf(q) ==
    IF Truthy(q.limit) THEN ParseInt(q.limit[1]) ELSE [nan |-> FALSE, n |-> DefaultLimit]

IncidentFilters_DatesSwapped(q) ==
    (IF Truthy(q.start_date)
     THEN << <<<<"date(date_time) >= ", "?">>,
               <<IF Truthy(q.end_date) THEN q.end_date[1] ELSE q.start_date[1]>>>> >>
     ELSE <<>>)
    \o (IF Truthy(q.end_date)
        THEN << <<<<"date(date_time) <= ", "?">>,
                  <<IF Truthy(q.start_date) THEN q.start_date[1] ELSE q.end_date[1]>>>> >>
        ELSE <<>>)
    \o (IF Truthy(q.code)
        THEN << <<InClause("code", ListElements(q.code)), ListElements(q.code)>> >>
        ELSE <<>>)
    \o (IF Truthy(q.grid)
        THEN << <<InClause("police_grid", ListElements(q.grid)), ListElements(q.grid)>> >>
        ELSE <<>>)
    \o (IF Truthy(q.neighborhood)
        THEN << <<InClause("neighborhood_number", ListElements(q.neighborhood)),
                  ListElements(q.neighborhood)>> >>
        ELSE <<>>)

\* the whereClauses and params of GET /incidents, filter by filter in the
\* handler's order: one <<clause, params>> pair per filter that is given
IncidentFilters(q) ==
    (IF Truthy(q.start_date)
     THEN << <<<<"date(date_time) >= ", "?">>, <<q.start_date[1]>>>> >> ELSE <<>>)
    \o (IF Truthy(q.end_date)
        THEN << <<<<"date(date_time) <= ", "?">>, <<q.end_date[1]>>>> >> ELSE <<>>)
    \o (IF Truthy(q.code)
        THEN << <<InClause("code", ListElements(q.code)), ListElements(q.code)>> >>
        ELSE <<>>)
    \o (IF Truthy(q.grid)
        THEN << <<InClause("police_grid", ListElements(q.grid)), ListElements(q.grid)>> >>
        ELSE <<>>)
    \o (IF Truthy(q.neighborhood)
        THEN << <<InClause("neighborhood_number", ListElements(q.neighborhood)),
                  ListElements(q.neighborhood)>> >>
        ELSE <<>>)

WherePart_Always(clauses) == <<" WHERE ">> \o JoinAnd(clauses)

\* if (whereClauses.length > 0) query += ' WHERE ' + whereClauses.join(' AND ')
WherePart(clauses) ==
    IF Len(clauses) > 0 THEN <<" WHERE ">> \o JoinAnd(clauses) ELSE <<>>

\* GET /incidents: the statement and its parameters
BuildIncidents(q) ==
    LET filters == IncidentFilters(q)
        clauses == [i \in 1..Len(filters) |-> filters[i][1]]
    IN  [sql |-> <<"SELECT case_number, DATE(date_time) as date, TIME(date_time) as time, code, incident, police_grid, neighborhood_number, block FROM Incidents">>
                 \o WherePart(clauses)
                 \o <<" ORDER BY date_time DESC">>
                 \o <<" LIMIT ">> \o NumberText(LimitOf(q)),
         params |-> Flatten([i \in 1..Len(filters) |-> filters[i][2]])]

(***************************************************************************)
(* The store's execution of a built statement.  The i-th '?' of the text   *)
(* is bound to the i-th parameter, as text.  Texts compare byte by byte;   *)
(* an integer column compares with a parameter that reads as an integer by *)
(* value and with no other text; a comparison with NULL selects nothing.   *)
(***************************************************************************)
CharOrder == <<" ", "+", ",", "-", ".", "0", "1", "2", "3", "4", "5", "6", "7", "8", "9",
               ":", "N", "T", "Z", "a", "x", "z">>

CharCode(c) == CHOOSE i \in 1..Len(CharOrder) : CharOrder[i] = c

RECURSIVE TextLess(_, _)
\* a < b for two texts
TextLess(a, b) ==
    IF b = <<>> THEN FALSE
    ELSE IF a = <<>> THEN TRUE
    ELSE IF a[1] = b[1] THEN TextLess(Tail(a), Tail(b))
    ELSE CharCode(a[1]) < CharCode(b[1])

\* whether a bound text reads as an integer: blanks, an optional sign, digits, blanks
IsIntegerText(t) ==
    LET i == SkipWhile(t, 1, {" "})
        j == IF CharAt(t, i) \in {"-", "+"} THEN i + 1 ELSE i
        k == SkipWhile(t, j, {DigitChars[d] : d \in 1..10})
    IN  k > j /\ SkipWhile(t, k, {" "}) > Len(t)

\* <integer column> = ? for a bound text
IntegerEquals(v, t) == IsIntegerText(t) /\ ParseInt(t).n = v

\* the position of the first fragment of sql that is in toks, or 0
FirstOf(sql, toks) ==
    IF \E i \in 1..Len(sql) : sql[i] \in toks
    THEN CHOOSE i \in 1..Len(sql) : sql[i] \in toks /\ \A j \in 1..(i - 1) : sql[j] \notin toks
    ELSE 0

OrderFragments == {" ORDER BY code", " ORDER BY neighborhood_number", " ORDER BY date_time DESC"}

\* the fragments of the WHERE clause, without the word WHERE
WhereOf(sql) ==
    LET w == FirstOf(sql, {" WHERE "})
        o == FirstOf(sql, OrderFragments)
    IN  IF w = 0 THEN <<>> ELSE SubSeq(sql, w + 1, o - 1)

CountOfFragment(toks, f) == Cardinality({i \in 1..Len(toks) : toks[i] = f})

InColumn(f) ==
    IF f = "code IN (" THEN "code"
    ELSE IF f = "police_grid IN (" THEN "police_grid"
    ELSE "neighborhood_number"

\* the parameter bound to the k-th '?', NULL when there is none
Bound(params, k) == IF k <= Len(params) THEN params[k] ELSE Null

\* date(date_time) >= ? or <= ? for the date d of the row and the bound text
DateCompare(d, bound, atLeast) ==
    /\ d # Null /\ bound # Null
    /\ IF atLeast THEN ~TextLess(d, bound) ELSE ~TextLess(bound, d)

\* the position of the ')' that closes the IN list opened at position i
CloseOf(toks, i) ==
    CHOOSE j \in i..Len(toks) : toks[j] = ")" /\ \A h \in i..(j - 1) : toks[h] # ")"

\* <column> IN (?, ...) for the value v of the row and the n parameters from the k-th on
InList(v, params, k, n) ==
    \E h \in k..(k + n - 1) : Bound(params, h) # Null /\ IntegerEquals(v, Bound(params, h))

RECURSIVE RowHolds(_, _, _, _, _)
\* whether row satisfies the WHERE fragments from position i on, the next '?'
\* being the k-th of the statement
RowHolds(row, toks, i, params, k) ==
    IF i > Len(toks) THEN TRUE
    ELSE IF toks[i] = " AND " THEN RowHolds(row, toks, i + 1, params, k)
    ELSE IF toks[i] \in {"date(date_time) >= ", "date(date_time) <= "}
    THEN /\ DateCompare(SqlDate(row.date_time), Bound(params, k),
                        toks[i] = "date(date_time) >= ")
         /\ RowHolds(row, toks, i + 2, params, k + 1)
    ELSE /\ InList(row[InColumn(toks[i])], params, k, (CloseOf(toks, i) - i) \div 2)
         /\ RowHolds(row, toks, CloseOf(toks, i) + 1, params, k + (CloseOf(toks, i) - i) \div 2)

RECURSIVE SortBy(_, _, _)
\* the rows of the set rows by column key: descending by its text (date_time),
\* or ascending by its integer (code, neighborhood_number)
SortBy(rows, key, descending) ==
    IF rows = {} THEN <<>>
    ELSE LET first == CHOOSE x \in rows : \A y \in rows \ {x} :
                         IF descending THEN ~TextLess(x[key], y[key]) ELSE y[key] > x[key]
         IN  <<first>> \o SortBy(rows \ {first}, key, descending)

Limit_Uncapped(rows, n) == rows

\* the first n elements of rows; every row for a negative n
Limit(rows, n) == IF n < 0 \/ n >= Len(rows) THEN rows ELSE SubSeq(rows, 1, n)

\* the text after LIMIT
LimitTextOf(sql) == SubSeq(sql, FirstOf(sql, {" LIMIT "}) + 1, Len(sql))

\* what the store answers to the statement: an error when it does not compile
\* (LIMIT NaN names a column that does not exist) or is given more parameters
\* than it has '?', else the rows selected, ordered and capped
SelectRows(sql, params, table, key, descending) ==
    LET hasLimit == FirstOf(sql, {" LIMIT "}) # 0
        lim      == IF hasLimit THEN LimitTextOf(sql) ELSE <<"-", "1">>
        rows     == SortBy({x \in table : RowHolds(x, WhereOf(sql), 1, params, 1)},
                           key, descending)
    IN  IF ~IsIntegerText(lim) \/ Len(params) > CountOfFragment(sql, "?")
        THEN [err |-> TRUE, rows |-> <<>>]
        ELSE [err |-> FALSE, rows |-> Limit(rows, ParseInt(lim).n)]

(***************************************************************************)
(* The query strings a client sends                                        *)
(***************************************************************************)
ListTexts == SeqsUpTo({"1", "2", ",", " "}, MaxListLen)

ListParams == {Absent} \cup {Given(t) : t \in ListTexts}

\* for the three list filters of /incidents: absent, empty, one element, two
\* elements with blanks, and an empty element between two commas
ShortListParams ==
    {Absent, Given(<<>>), Given(<<"1">>), Given(<<"2", ",", " ", "1">>),
     Given(<<"1", ",", ",", "2">>)}

DateParams == {Absent, Given(<<>>), Given(D_0105), Given(D_0229)}

LimitParams ==
    {Absent, Given(<<>>), Given(<<"2">>), Given(<<"a", "x">>), Given(<<"2", "x">>),
     Given(<<"-", "1">>)}

CodesQueries == [code : ListParams]

NeighborhoodsQueries == [id : ListParams]

IncidentsQueries ==
    [start_date : DateParams, end_date : DateParams, code : ShortListParams,
     grid : ShortListParams, neighborhood : ShortListParams, limit : LimitParams]

(***************************************************************************)
(* The GET handlers                                                        *)
(***************************************************************************)
MsgCodesError == "Error retrieving codes"
MsgNeighborhoodsError == "Error retrieving neighborhoods"
MsgIncidentsError == "Error retrieving incidents"

ReadError_OneMessage(endpoint) == MsgIncidentsError

ReadError(endpoint) ==
    IF endpoint = "codes" THEN MsgCodesError
    ELSE IF endpoint = "neighborhoods" THEN MsgNeighborhoodsError
    ELSE MsgIncidentsError

\* rows.map(row => ({code: row.code, type: row.incident_type}))
ShapeCode(row) == [code |-> row.code, type |-> row.incident_type]

\* rows.map(row => ({id: row.neighborhood_number, name: row.neighborhood_name}))
ShapeNeighborhood(row) == [id |-> row.neighborhood_number, name |-> row.neighborhood_name]

ShapeRows(endpoint, rows) ==
    [i \in 1..Len(rows) |->
        IF endpoint = "codes" THEN ShapeCode(rows[i])
        ELSE IF endpoint = "neighborhoods" THEN ShapeNeighborhood(rows[i])
        ELSE ShapeIncident(rows[i])]

\* the handler up to await dbSelect(query, params)
Reading(endpoint, q, built) ==
    [pc |-> "select", endpoint |-> endpoint, query |-> q,
     sql |-> built.sql, params |-> built.params,
     status |-> 0, rows |-> <<>>, text |-> "", fault |-> "none"]

\* GET /codes with a query string of the set Q
GetCodesOf(Q) ==
    /\ rd = NoRead
    /\ \E q \in Q : rd' = Reading("codes", q, BuildCodes(q))
    /\ UNCHANGED <<incidents, uniqueConstraint, req, res, codes, neighborhoods>>

GetCodes == GetCodesOf(CodesQueries)

\* GET /neighborhoods with a query string of the set Q
GetNeighborhoodsOf(Q) ==
    /\ rd = NoRead
    /\ \E q \in Q : rd' = Reading("neighborhoods", q, BuildNeighborhoods(q))
    /\ UNCHANGED <<incidents, uniqueConstraint, req, res, codes, neighborhoods>>

GetNeighborhoods == GetNeighborhoodsOf(NeighborhoodsQueries)

\* GET /incidents with a query string of the set Q
GetIncidentsOf(Q) ==
    /\ rd = NoRead
    /\ \E q \in Q : rd' = Reading("incidents", q, BuildIncidents(q))
    /\ UNCHANGED <<incidents, uniqueConstraint, req, res, codes, neighborhoods>>

GetIncidents == GetIncidentsOf(IncidentsQueries)

\* db.all(query, params, ...) on the table the statement names
RunSelect(endpoint, sql, params) ==
    IF endpoint = "codes" THEN SelectRows(sql, params, codes, "code", FALSE)
    ELSE IF endpoint = "neighborhoods"
    THEN SelectRows(sql, params, neighborhoods, "neighborhood_number", FALSE)
    ELSE SelectRows(sql, params, BagToSet(incidents), "date_time", TRUE)

\* the read completes: the rows are shaped and sent, or the statement was
\* refused and the catch branch answers
ReadDone ==
    /\ rd.pc = "select"
    /\ LET out == RunSelect(rd.endpoint, rd.sql, rd.params)
       IN  IF out.err
           THEN rd' = [rd EXCEPT !.pc = "done", !.status = 500,
                                 !.text = ReadError(rd.endpoint), !.fault = "sql"]
           ELSE rd' = [rd EXCEPT !.pc = "done", !.status = 200,
                                 !.rows = ShapeRows(rd.endpoint, out.rows)]
    /\ UNCHANGED <<incidents, uniqueConstraint, req, res, codes, neighborhoods>>

\* the read fails in the store: the catch branch answers
ReadFail ==
    /\ rd.pc = "select"
    /\ rd' = [rd EXCEPT !.pc = "done", !.status = 500,
                        !.text = ReadError(rd.endpoint), !.fault = "io"]
    /\ UNCHANGED <<incidents, uniqueConstraint, req, res, codes, neighborhoods>>

\* the response has left; the next request is served
ReadFlush ==
    /\ rd.pc = "done"
    /\ rd' = NoRead
    /\ UNCHANGED <<incidents, uniqueConstraint, req, res, codes, neighborhoods>>

IncidentRows ==
    { InsertParams(Body("A", D_0105, T_123000, 1, "Theft", 1, 1, "9XX UNIVERSITY")),
      InsertParams(Body("B", D_0229, T_080509, 2, "Vandalism", 2, 2, "1XX GRAND")),
      InsertParams(Body("C", D_0230, T_1230, 12, "Vandalism", 1, 2, "1XX GRAND")) }

InitRead ==
    /\ incidents = SetToBag(IncidentRows)
    /\ uniqueConstraint = TRUE
    /\ req = [s \in Slots |-> Idle]
    /\ res = <<>>
    /\ codes = CodeRows
    /\ neighborhoods = NeighborhoodRows
    /\ rd = NoRead

NextRead ==
    \/ GetCodes
    \/ GetNeighborhoods
    \/ GetIncidents
    \/ ReadDone
    \/ ReadFail
    \/ ReadFlush

SpecRead == InitRead /\ [][NextRead]_vars

(***************************************************************************)
(* The five endpoints together: of the MaxInFlight requests in flight, one *)
(* is a GET and the others are mutations.  The GET reads the tables as     *)
(* they are when its read completes.                                       *)
(***************************************************************************)
MutationSlots == 1..(MaxInFlight - 1)

NoFilter ==
    [start_date |-> Absent, end_date |-> Absent, code |-> Absent, grid |-> Absent,
     neighborhood |-> Absent, limit |-> Absent]

\* the query strings sent while mutations are in flight: no filter, the
\* incidents from 2024-02-29 on, and a limit that is not a number
SampleCodesQueries == {[code |-> Absent], [code |-> Given(<<"1">>)]}

SampleNeighborhoodsQueries == {[id |-> Absent]}

SampleIncidentsQueries ==
    {NoFilter, [NoFilter EXCEPT !.start_date = Given(D_0229)],
     [NoFilter EXCEPT !.limit = Given(<<"a", "x">>)]}

NextAll ==
    \/ \E r \in MutationSlots, b \in PutBodies : PutReceive(r, b)
    \/ \E r \in MutationSlots : PutCheck(r)
    \/ \E r \in MutationSlots : PutCheckFail(r)
    \/ \E r \in MutationSlots : PutInsert(r)
    \/ \E r \in MutationSlots : PutInsertFail(r)
    \/ \E r \in MutationSlots, b \in DeleteBodies : DeleteReceive(r, b)
    \/ \E r \in MutationSlots : DeleteCheck(r)
    \/ \E r \in MutationSlots : DeleteCheckFail(r)
    \/ \E r \in MutationSlots : DeleteRun(r)
    \/ \E r \in MutationSlots : DeleteRunFail(r)
    \/ Flush
    \/ GetCodesOf(SampleCodesQueries)
    \/ GetNeighborhoodsOf(SampleNeighborhoodsQueries)
    \/ GetIncidentsOf(SampleIncidentsQueries)
    \/ ReadDone
    \/ ReadFail
    \/ ReadFlush

SpecAll == Init /\ [][NextAll]_vars

(***************************************************************************)
(* Every store operation issued completes: db.all and db.run call back,    *)
(* with rows, with success or with an error, whatever else the process     *)
(* does meanwhile; and a response written is sent.                         *)
(***************************************************************************)
\* the outstanding store operation of the request in slot r calls back
StoreAnswers(r) ==
    \/ PutCheck(r) \/ PutCheckFail(r) \/ PutInsert(r) \/ PutInsertFail(r)
    \/ DeleteCheck(r) \/ DeleteCheckFail(r) \/ DeleteRun(r) \/ DeleteRunFail(r)

\* the outstanding read of the GET request calls back
ReadAnswers == ReadFail \/ ReadDone

StoreCompletes ==
    /\ \A r \in MutationSlots : SF_vars(StoreAnswers(r))
    /\ WF_vars(ReadAnswers)
    /\ WF_vars(Flush)

SpecAllFair == SpecAll /\ StoreCompletes

(***************************************************************************)
(* Claims on the mutation endpoints                                        *)
(***************************************************************************)
\* the response written in this tick, if any
Sent == {res[i] : i \in 1..Len(res)}

\* the step in which a response is written
Answering == res = <<>> /\ res' # <<>>

RowsOf(table, cn) == {x \in BagToSet(table) : x.case_number = cn}

CountOf(table, cn) == Len(SelectCaseNumber(table, cn))

Unique(table) == \A x \in BagToSet(table) : CountOf(table, x.case_number) = 1

\* C1: a PUT /new-incident whose pre-check read returns a row answers 500
\* 'Case number already exists', has issued no write, and its answering step
\* leaves the Incidents table as it was.
C1_DuplicateRejected ==
    /\ [](\A a \in Sent : (a.kind = "PUT" /\ a.found > 0) =>
            (a.status = 500 /\ a.text = MsgExists /\ a.writes = 0))
    /\ [][(Answering /\ res'[1].kind = "PUT" /\ res'[1].found > 0)
            => incidents' = incidents]_vars

C1_Witness ==
    \E a \in Sent : a.kind = "PUT" /\ a.found > 0 /\ a.text = MsgExists
                    /\ incidents # EmptyBag

\* the case of C2: a PUT whose pre-check read returned no row, that met no store
\* failure and was in flight with no other request
NovelPut(a) == a.kind = "PUT" /\ a.found = 0 /\ a.fault # "io" /\ ~a.overlapped

\* what GET /incidents returns for the rows with this case number
ShapedRowsOf(table, cn) == {ShapeIncident(x) : x \in RowsOf(table, cn)}

StoredAsSupplied(table, b) ==
    /\ CountOf(table, b.case_number) = 1
    /\ \A g \in ShapedRowsOf(table, b.case_number) :
          /\ g.case_number = b.case_number /\ g.code = b.code
          /\ g.incident = b.incident /\ g.police_grid = b.police_grid
          /\ g.neighborhood_number = b.neighborhood_number /\ g.block = b.block

\* C2 as stated: such a PUT answers 200 'OK', and then Incidents holds exactly one
\* row with its case number, with the fields as supplied, whose date and time as
\* GET /incidents returns them are the date and time of the body.
C2_RoundTripAnyText ==
    \A a \in Sent : NovelPut(a) =>
        /\ a.status = 200 /\ a.text = MsgOK
        /\ StoredAsSupplied(incidents, a.body)
        /\ \A g \in ShapedRowsOf(incidents, a.body.case_number) :
              g.date = a.body.date /\ g.time = a.body.time

\* a date written YYYY-MM-DD that is a day of the calendar
IsCalendarDate(d) ==
    /\ Len(d) = 10 /\ d[5] = "-" /\ d[8] = "-"
    /\ \A i \in {1, 2, 3, 4, 6, 7, 9, 10} : IsDigit(d[i])
    /\ LET y  == GetDigits(d, 1, 4)
           m  == GetDigits(d, 6, 2)
           dd == GetDigits(d, 9, 2)
       IN  m \in 1..12 /\ dd >= 1 /\ dd <= DaysInMonth(y, m)

\* a time written HH:MM:SS, 00:00:00 to 23:59:59
IsClockTime(t) ==
    /\ Len(t) = 8 /\ t[3] = ":" /\ t[6] = ":"
    /\ \A i \in {1, 2, 4, 5, 7, 8} : IsDigit(t[i])
    /\ GetDigits(t, 1, 2) <= 23 /\ GetDigits(t, 4, 2) <= 59 /\ GetDigits(t, 7, 2) <= 59

\* C2 as amended: such a PUT answers 200 'OK', and then Incidents holds exactly one
\* row with its case number, with the fields as supplied; the date and time GET
\* /incidents returns are the store's DATE() and TIME() of date + 'T' + time,
\* which are the date and time of the body when the date is a calendar day
\* written YYYY-MM-DD and the time is written HH:MM:SS.
C2_RoundTripCanonical ==
    \A a \in Sent : NovelPut(a) =>
        /\ a.status = 200 /\ a.text = MsgOK
        /\ StoredAsSupplied(incidents, a.body)
        /\ (IsCalendarDate(a.body.date) /\ IsClockTime(a.body.time)) =>
              \A g \in ShapedRowsOf(incidents, a.body.case_number) :
                 g.date = a.body.date /\ g.time = a.body.time

C2_Witness ==
    \E a \in Sent : /\ NovelPut(a) /\ a.status = 200
                    /\ IsCalendarDate(a.body.date) /\ IsClockTime(a.body.time)
                    /\ a.body.date = D_0229

\* C3: a DELETE /remove-incident whose pre-check read returns no row answers 500
\* 'Case number does not exist', has issued no DELETE statement, and its
\* answering step leaves the store as it was.
C3_MissingRejected ==
    /\ [](\A a \in Sent : (a.kind = "DELETE" /\ a.found = 0) =>
            (a.status = 500 /\ a.text = MsgMissing /\ a.writes = 0))
    /\ [][(Answering /\ res'[1].kind = "DELETE" /\ res'[1].found = 0)
            => incidents' = incidents]_vars

C3_Witness ==
    \E a \in Sent : a.kind = "DELETE" /\ a.found = 0 /\ a.text = MsgMissing
                    /\ incidents # EmptyBag

\* the case of C4: a DELETE whose pre-check read returned a row, that met no store
\* failure and was in flight with no other request
PresentDelete(a) == a.kind = "DELETE" /\ a.found > 0 /\ a.fault = "none" /\ ~a.overlapped

\* C4: such a DELETE answers 200 'OK'; its step removes the rows with its case
\* number, which were there, and no other row; and a DELETE of the same case
\* number whose pre-check reads the store next is answered 'Case number does not
\* exist'.
C4_DeleteExisting ==
    [][(Answering /\ PresentDelete(res'[1])) =>
        LET cn == res'[1].body.case_number
        IN  /\ res'[1].status = 200 /\ res'[1].text = MsgOK
            /\ CountOf(incidents, cn) > 0
            /\ CountOf(incidents', cn) = 0
            /\ \A x \in BagToSet(incidents) :
                  x.case_number # cn => CopiesIn(x, incidents') = CopiesIn(x, incidents)
            /\ DeleteCheckMissing(SelectCaseNumber(incidents', cn))]_vars

C4_Witness ==
    \E a \in Sent : PresentDelete(a) /\ a.status = 200 /\ incidents # EmptyBag

\* an insert is outstanding for a case number the table already holds
StaleInsert(r) ==
    /\ req[r].kind = "PUT" /\ req[r].pc = "write"
    /\ CountOf(incidents, req[r].body.case_number) > 0

\* C5 as stated: in every reachable state no two rows share a case number, and
\* it is the pre-check that enforces it: no insert is outstanding for a case
\* number that is already in the table.
C5_UniqueByPreCheck ==
    Unique(incidents) /\ \A r \in Slots : ~StaleInsert(r)

\* C5 as amended: an insert by a PUT that was in flight with no other request
\* keeps the case numbers unique, whatever the schema (the pre-check enforces
\* it); with requests in flight together the pre-check can be stale, and the
\* case numbers stay unique in every reachable state only when the schema of the
\* store makes case_number unique.
C5_UniqueSerialOrBySchema ==
    /\ [](uniqueConstraint => Unique(incidents))
    /\ [][(Answering /\ res'[1].kind = "PUT" /\ ~res'[1].overlapped /\ Unique(incidents))
            => Unique(incidents')]_vars

C5_Witness ==
    /\ ~uniqueConstraint
    /\ \E a \in Sent : a.kind = "PUT" /\ ~a.overlapped /\ a.status = 200
    /\ \E x \in BagToSet(incidents) : x.case_number = "A"
    /\ \E x \in BagToSet(incidents) : x.case_number = "B"

\* C6: 'Case number already exists' is sent only by a request whose own pre-check
\* read returned a row; an insert the store rejects for its uniqueness
\* constraint is answered 500 'Error inserting incident', and happens only to a
\* request whose pre-check returned no row while another request was in flight.
C6_RaceAnswer ==
    \A a \in Sent :
        /\ a.text = MsgExists => a.found > 0
        /\ a.fault = "constraint" =>
              /\ a.kind = "PUT" /\ a.status = 500 /\ a.text = MsgInsertError
              /\ a.found = 0 /\ a.overlapped /\ a.writes = 1

\* two PUTs passed the pre-check for the same case number and the second insert
\* has just been rejected
C6_Witness ==
    \E a \in Sent : /\ a.fault = "constraint" /\ a.found = 0
                    /\ CountOf(incidents, a.body.case_number) = 1


(***************************************************************************)
(* Claims on the statements the GET handlers build                         *)
(***************************************************************************)
\* a GET request has been taken and its statement built
Built == rd.pc # "none"

\* the filters of an endpoint in the handler's order: the key of the query
\* string, the fragment its clause starts with, whether its value is a list
FiltersOf(endpoint) ==
    IF endpoint = "codes" THEN <<[key |-> "code", head |-> "code IN (", list |-> TRUE]>>
    ELSE IF endpoint = "neighborhoods"
    THEN <<[key |-> "id", head |-> "neighborhood_number IN (", list |-> TRUE]>>
    ELSE <<[key |-> "start_date", head |-> "date(date_time) >= ", list |-> FALSE],
           [key |-> "end_date", head |-> "date(date_time) <= ", list |-> FALSE],
           [key |-> "code", head |-> "code IN (", list |-> TRUE],
           [key |-> "grid", head |-> "police_grid IN (", list |-> TRUE],
           [key |-> "neighborhood", head |-> "neighborhood_number IN (", list |-> TRUE]>>

FilterSet(endpoint) == {FiltersOf(endpoint)[i] : i \in 1..Len(FiltersOf(endpoint))}

\* a filter is present when its key is given with a value that is not empty
PresentFilters(endpoint, q) == {f \in FilterSet(endpoint) : Truthy(q[f.key])}

\* the fragments of the IN clause that starts with head, up to its ')'
ClauseOf(sql, head) ==
    LET i == FirstOf(sql, {head})
        j == CHOOSE c \in i..Len(sql) : sql[c] = ")" /\ \A h \in i..(c - 1) : sql[h] # ")"
    IN  SubSeq(sql, i, j)

\* the parameters bound to the '?' of the clause that starts with head
ParamsOf(sql, params, head) ==
    LET i == FirstOf(sql, {head})
        k == CountOfFragment(SubSeq(sql, 1, i - 1), "?")
        n == CountOfFragment(ClauseOf(sql, head), "?")
    IN  SubSeq(params, k + 1, k + n)

Commas(t) == {i \in 1..Len(t) : t[i] = ","}

\* the n-th stretch of t between commas, blanks at its two ends removed
ElementAt(t, n) ==
    LET cs    == Commas(t)
        nth(k) == CHOOSE i \in cs : Cardinality({j \in cs : j < i}) = k - 1
        from  == IF n = 1 THEN 1 ELSE nth(n - 1) + 1
        to    == IF n = Cardinality(cs) + 1 THEN Len(t) ELSE nth(n) - 1
        inked == {i \in from..to : t[i] # " "}
        lo    == CHOOSE i \in inked : \A j \in inked : i <= j
        hi    == CHOOSE i \in inked : \A j \in inked : i >= j
    IN  IF inked = {} THEN <<>> ELSE SubSeq(t, lo, hi)

\* the elements of a comma-separated text, empty ones included
ElementsOf(t) == [n \in 1..(Cardinality(Commas(t)) + 1) |-> ElementAt(t, n)]

NotEmpty(e) == e # <<>>

\* C7 as stated: the IN clause of a list filter holds one '?' per trimmed,
\* non-empty element of the value, and its parameters are those elements in order.
C7_PlaceholderPerNonEmptyElement ==
    Built => \A f \in PresentFilters(rd.endpoint, rd.query) : f.list =>
        LET want == SelectSeq(ElementsOf(rd.query[f.key][1]), NotEmpty)
        IN  /\ CountOfFragment(ClauseOf(rd.sql, f.head), "?") = Len(want)
            /\ ParamsOf(rd.sql, rd.params, f.head) = want

\* C7 as amended: the IN clause of a list filter holds one '?' per
\* comma-separated element of the value, an empty element (between two commas,
\* or before the first or after the last) counted like any other, and its
\* parameters are those elements, trimmed, in their order.
C7_PlaceholderPerElement ==
    Built => \A f \in PresentFilters(rd.endpoint, rd.query) : f.list =>
        LET want == ElementsOf(rd.query[f.key][1])
        IN  /\ CountOfFragment(ClauseOf(rd.sql, f.head), "?") = Len(want)
            /\ ClauseOf(rd.sql, f.head) = <<f.head>> \o Placeholders(want) \o <<")">>
            /\ ParamsOf(rd.sql, rd.params, f.head) = want

\* /incidents given grid '2, 1' and code '1,,2': two parameters for the grid,
\* three for the code, the middle one empty
C7_Witness ==
    /\ Built /\ rd.endpoint = "incidents"
    /\ rd.query.grid = Given(<<"2", ",", " ", "1">>)
    /\ rd.query.code = Given(<<"1", ",", ",", "2">>)
    /\ ParamsOf(rd.sql, rd.params, "police_grid IN (") = << <<"2">>, <<"1">> >>
    /\ ParamsOf(rd.sql, rd.params, "code IN (") = << <<"1">>, <<>>, <<"2">> >>

OrderOf(endpoint) ==
    IF endpoint = "codes" THEN " ORDER BY code"
    ELSE IF endpoint = "neighborhoods" THEN " ORDER BY neighborhood_number"
    ELSE " ORDER BY date_time DESC"

\* C8: the statement holds one clause per filter that is present and none for
\* one that is not; the first clause follows WHERE and each other one follows
\* AND; with no filter present there is no WHERE; and the statement always
\* carries the ORDER BY of its resource, after the clauses, followed for
\* /incidents by the LIMIT.
C8_ClausePerPresentFilter ==
    Built =>
        LET present == PresentFilters(rd.endpoint, rd.query)
            sql     == rd.sql
            o       == FirstOf(sql, OrderFragments)
        IN  /\ \A f \in FilterSet(rd.endpoint) :
                  CountOfFragment(sql, f.head) = IF f \in present THEN 1 ELSE 0
            /\ CountOfFragment(sql, " WHERE ") = IF present = {} THEN 0 ELSE 1
            /\ CountOfFragment(sql, " AND ") =
                  IF present = {} THEN 0 ELSE Cardinality(present) - 1
            /\ \A f \in present :
                  LET i == FirstOf(sql, {f.head})
                  IN  /\ i < o
                      /\ sql[i - 1] = IF i = 3 THEN " WHERE " ELSE " AND "
            /\ present = {} => o = 2
            /\ CountOfFragment(sql, OrderOf(rd.endpoint)) = 1
            /\ sql[o] = OrderOf(rd.endpoint)
            /\ IF rd.endpoint = "incidents"
               THEN CountOfFragment(sql, " LIMIT ") = 1 /\ sql[o + 1] = " LIMIT "
               ELSE o = Len(sql)

\* /incidents with no filter at all, and with the five of them
C8_Witness ==
    /\ Built /\ rd.endpoint = "incidents"
    /\ Cardinality(PresentFilters("incidents", rd.query)) = 5
    /\ CountOfFragment(rd.sql, " AND ") = 4

\* the text of n elements 'x' separated by commas
RECURSIVE XList(_)
XList(n) == IF n = 1 THEN <<"x">> ELSE XList(n - 1) \o <<",", "x">>

\* the query with every filter value replaced by x's: the same filters are
\* present, each list has as many elements, the limit is the same
Blind(endpoint, q) ==
    [k \in DOMAIN q |->
        IF k = "limit" \/ ~Truthy(q[k]) THEN q[k]
        ELSE IF \E f \in FilterSet(endpoint) : f.key = k /\ f.list
        THEN Given(XList(Cardinality(Commas(q[k][1])) + 1))
        ELSE Given(<<"x">>)]

BuildFor(endpoint, q) ==
    IF endpoint = "codes" THEN BuildCodes(q)
    ELSE IF endpoint = "neighborhoods" THEN BuildNeighborhoods(q)
    ELSE BuildIncidents(q)

\* C9: the text of the statement is the text built for the same request with
\* every filter value replaced by x's, so that two requests with the same
\* filters present, as many elements in each list and the same limit get the
\* same text; the values are in the parameter list only.
C9_TextIndependentOfValues ==
    Built =>
        /\ rd.sql = BuildFor(rd.endpoint, Blind(rd.endpoint, rd.query)).sql
        /\ \A f \in PresentFilters(rd.endpoint, rd.query) :
              ~f.list => \E i \in 1..Len(rd.params) : rd.params[i] = rd.query[f.key][1]

C9_Witness ==
    /\ Built /\ rd.endpoint = "incidents"
    /\ rd.query.start_date = Given(D_0229) /\ rd.query.code = Given(<<"2", ",", " ", "1">>)
    /\ Blind("incidents", rd.query) # rd.query

\* a limit that is given and does not read as an integer
BadLimit(q) == Truthy(q.limit) /\ ParseInt(q.limit[1]).nan

\* C10 as stated: a GET /incidents whose limit does not parse as an integer
\* uses the cap 1000 and, the store not failing, answers 200 with at most 1000 rows.
C10_BadLimitFallsBack ==
    (rd.pc = "done" /\ rd.endpoint = "incidents" /\ BadLimit(rd.query) /\ rd.fault # "io") =>
        /\ LimitTextOf(rd.sql) = NatText(DefaultLimit)
        /\ rd.status = 200
        /\ Len(rd.rows) <= DefaultLimit

(***************************************************************************)
(* Claims on the answers of the GET handlers                               *)
(***************************************************************************)
\* the GET request has been answered
Answered == rd.pc = "done"

\* the rows of Incidents the WHERE clause of the request selects
Matching ==
    {x \in BagToSet(incidents) : RowHolds(x, WhereOf(rd.sql), 1, rd.params, 1)}

\* the sequences of distinct elements of the set S
Orderings(S) ==
    {s \in UNION {[1..k -> S] : k \in 0..Cardinality(S)} :
        \A i, j \in 1..Len(s) : i # j => s[i] # s[j]}

Range(s) == {s[i] : i \in 1..Len(s)}

\* s is in descending date_time order and no row of rest has a greater
\* date_time than a row of s
NewestFirst(s, rest) ==
    /\ \A i \in 1..(Len(s) - 1) : ~TextLess(s[i].date_time, s[i + 1].date_time)
    /\ \A x \in rest : \A i \in 1..Len(s) : ~TextLess(s[i].date_time, x.date_time)

Min(a, b) == IF a < b THEN a ELSE b

\* the limit is not given, or is given as an integer
IntegerLimit(q) == ~Truthy(q.limit) \/ IsIntegerText(q.limit[1])

\* the cap of such a request: the integer supplied, 1000 without one
CapOf(q) == IF Truthy(q.limit) THEN ParseInt(q.limit[1]).n ELSE DefaultLimit

\* the answer holds count rows: the rows of s, shaped, s being matching rows
\* newest first with no newer matching row left out
HoldsNewest(count) ==
    \E s \in Orderings(Matching) :
        /\ Len(s) = count
        /\ ShapeRows("incidents", s) = rd.rows
        /\ NewestFirst(s, Matching \ Range(s))

\* a GET /incidents with an integer limit or none, whose read did not fail
CappedRead ==
    Answered /\ rd.endpoint = "incidents" /\ IntegerLimit(rd.query) /\ rd.fault # "io"

\* C11 as stated: a GET /incidents with cap n (the integer limit supplied, 1000
\* without one) and m matching rows answers 200 with exactly min(n, m) rows, the
\* matching rows of greatest date_time, in descending date_time order.
C11_MinOfCapAndMatches ==
    CappedRead =>
        /\ rd.status = 200
        /\ HoldsNewest(Min(CapOf(rd.query), Cardinality(Matching)))

\* C11 as amended: the same for a cap n >= 0; a negative limit is no cap, and
\* the answer then holds every matching row, in descending date_time order.
C11_MinOfCapAndMatchesNonNegative ==
    CappedRead =>
        /\ rd.status = 200
        /\ HoldsNewest(IF CapOf(rd.query) < 0 THEN Cardinality(Matching)
                       ELSE Min(CapOf(rd.query), Cardinality(Matching)))
        /\ ~Truthy(rd.query.limit) => Len(rd.rows) <= DefaultLimit

\* limit=2 with three matching rows: the two newest are returned
C11_Witness ==
    /\ CappedRead /\ rd.query.limit = Given(<<"2">>)
    /\ Cardinality(Matching) = 3 /\ Len(rd.rows) = 2
    /\ rd.rows[1].case_number = "B" /\ rd.rows[2].case_number = "C"

(***************************************************************************)
(* Claims on failures, frames and the order of the handlers' steps         *)
(***************************************************************************)
\* the message of the catch branch of a mutation handler
CatchText(kind) ==
    IF kind = "PUT" THEN "Error inserting incident" ELSE "Error deleting incident"

\* C12: a mutation that meets a store failure, on its pre-check read or on its
\* write, answers 500 with 'Error inserting incident' (PUT) or 'Error deleting
\* incident' (DELETE); when the pre-check read is what failed, no write was issued.
C12_StoreFailureAnswer ==
    \A a \in Sent :
        /\ a.fault # "none" =>
              a.status = 500 /\ a.text = CatchText(a.kind)
        /\ a.found = -1 => (a.fault = "io" /\ a.writes = 0)
        /\ (a.fault # "none" /\ a.found # -1) => a.writes = 1

\* a DELETE whose pre-check read failed while the row was there
C12_Witness ==
    \E a \in Sent : /\ a.kind = "DELETE" /\ a.fault = "io" /\ a.found = -1
                    /\ a.text = "Error deleting incident"
                    /\ CountOf(incidents, a.body.case_number) = 1

\* the plain-text message of each resource
RetrievalMessage(endpoint) ==
    IF endpoint = "codes" THEN "Error retrieving codes"
    ELSE IF endpoint = "neighborhoods" THEN "Error retrieving neighborhoods"
    ELSE "Error retrieving incidents"

\* C13: a GET whose store read fails answers 500 with the message of its
\* resource and no rows; an answer is 200 or 500, and a 200 answer carries no
\* message and every row of one successful read of its statement, shaped, in
\* the order the store returned them.
C13_ReadFailureAnswer ==
    Answered =>
        /\ rd.status \in {200, 500}
        /\ rd.fault # "none" =>
              /\ rd.status = 500
              /\ rd.text = RetrievalMessage(rd.endpoint)
              /\ rd.rows = <<>>
        /\ rd.status = 200 =>
              /\ rd.fault = "none" /\ rd.text = ""
              /\ ~RunSelect(rd.endpoint, rd.sql, rd.params).err
              /\ rd.rows = ShapeRows(rd.endpoint, RunSelect(rd.endpoint, rd.sql, rd.params).rows)

\* a GET /neighborhoods with a filter whose read failed in the store
C13_Witness ==
    /\ Answered /\ rd.endpoint = "neighborhoods" /\ rd.fault = "io"
    /\ Truthy(rd.query.id) /\ rd.text = "Error retrieving neighborhoods"

\* the rows the step removes all have the case number cn, and the rows that
\* stay are as they were
RemovesOnly(cn) ==
    /\ incidents' \sqsubseteq incidents
    /\ \A x \in BagToSet(incidents) :
          x.case_number # cn => CopiesIn(x, incidents') = CopiesIn(x, incidents)

\* the step adds one row, built from the body, and the rows that were there
\* stay as they were
AddsOneRowOf(body) ==
    /\ incidents \sqsubseteq incidents'
    /\ BagCardinality(incidents') = BagCardinality(incidents) + 1
    /\ \E x \in BagToSet(incidents') :
          /\ CopiesIn(x, incidents') = CopiesIn(x, incidents) + 1
          /\ x.case_number = body.case_number /\ x.code = body.code
          /\ x.incident = body.incident /\ x.police_grid = body.police_grid
          /\ x.neighborhood_number = body.neighborhood_number /\ x.block = body.block

\* C14: no step changes the Codes or Neighborhoods table; no step of a GET
\* handler changes Incidents; and a step that changes Incidents is the
\* answering step of a PUT, which adds one whole row and leaves the others as
\* they were, or of a DELETE, which removes rows of its case number and leaves
\* the others as they were.
C14_InsertOrDeleteOnly ==
    [][/\ codes' = codes /\ neighborhoods' = neighborhoods
       /\ rd' # rd => incidents' = incidents
       /\ incidents' # incidents =>
             /\ Answering
             /\ res'[1].kind \in {"PUT", "DELETE"}
             /\ res'[1].kind = "PUT" => AddsOneRowOf(res'[1].body)
             /\ res'[1].kind = "DELETE" => RemovesOnly(res'[1].body.case_number)]_vars

\* a GET /incidents has been answered with rows, and a DELETE has then removed
\* one row of two
C14_Witness ==
    /\ Answered /\ rd.endpoint = "incidents" /\ Len(rd.rows) = 2
    /\ \E a \in Sent : a.kind = "DELETE" /\ a.status = 200
    /\ BagCardinality(incidents) = 1

\* what the handler of slot s holds of its request: its position and locals
LocalsOf(slot) == [pc |-> slot.pc, kind |-> slot.kind, body |-> slot.body, found |-> slot.found]

\* the step changes nothing of the requests in the slots other than r
OthersKeep(r) == \A s \in Slots \ {r} : LocalsOf(req'[s]) = LocalsOf(req[s])

\* the step in which the GET request is answered with status
ReadAnswering(status) == rd.pc = "select" /\ rd'.pc = "done" /\ rd'.status = status

\* C15: a step that changes a table is the step in which a request is answered
\* 200, so a request that ends with 500 has changed no table in any of its
\* steps; and the step that answers a request 500 changes nothing that another
\* request holds or will read: not the tables, not the position or locals of any
\* other request in flight.
C15_FailureIsolated ==
    [][/\ <<incidents, codes, neighborhoods>>' # <<incidents, codes, neighborhoods>> =>
             (Answering /\ res'[1].status = 200)
       /\ (Answering /\ res'[1].status = 500) =>
             /\ <<incidents, codes, neighborhoods>>' = <<incidents, codes, neighborhoods>>
             /\ OthersKeep(res'[1].slot)
             /\ rd' = rd
       /\ ReadAnswering(500) =>
             /\ <<incidents, codes, neighborhoods>>' = <<incidents, codes, neighborhoods>>
             /\ \A s \in Slots : LocalsOf(req'[s]) = LocalsOf(req[s])
       /\ \A r \in Slots : LocalsOf(req'[r]) # LocalsOf(req[r]) => (OthersKeep(r) /\ rd' = rd)]_vars

\* a DELETE whose statement failed has been answered 500 while a GET
\* /incidents is waiting for its rows: the row is still there
C15_Witness ==
    /\ \E a \in Sent : /\ a.kind = "DELETE" /\ a.status = 500 /\ a.writes = 1
                       /\ CountOf(incidents, a.body.case_number) = 1
    /\ rd.pc = "select" /\ rd.endpoint = "incidents"

\* the result of the pre-check that lets the write be issued: no row for a
\* create, at least one row for a delete
Required(kind, found) == IF kind = "PUT" THEN found = 0 ELSE found > 0

\* the response written by the step is that of slot r, which holds nothing after it
AnswersFor(r) == Answering /\ res'[1].slot = r /\ req'[r].pc = "idle"

\* C16: a request goes from its pre-check read to its write or to its answer,
\* and from its write to its answer, and no other way: no store operation is
\* issued twice.  The write is issued in the step in which the pre-check read
\* completes with the required result, and at most once.  A response is written
\* in the step in which the last store operation of its request completes.
C16_ReadThenWriteOnce ==
    /\ [](\A r \in Slots :
            /\ req[r].writes <= 1
            /\ req[r].pc = "write" => (req[r].writes = 1 /\ Required(req[r].kind, req[r].found)))
    /\ [](\A a \in Sent :
            /\ a.writes <= 1
            /\ a.writes = 1 => Required(a.kind, a.found))
    /\ [][\A r \in Slots :
            /\ req[r].pc = "idle" =>
                  (req'[r].pc \in {"idle", "check"} /\ req'[r].writes = 0)
            /\ req[r].pc = "check" =>
                  /\ req'[r].pc \in {"check", "write", "idle"}
                  /\ req'[r].pc = "check" => req'[r].writes = 0
                  /\ req'[r].pc = "write" =>
                        /\ req'[r].found = CountOf(incidents, req[r].body.case_number)
                        /\ Required(req[r].kind, req'[r].found)
                        /\ res' = <<>>
                  /\ req'[r].pc = "idle" => (AnswersFor(r) /\ res'[1].writes = 0)
            /\ req[r].pc = "write" =>
                  /\ req'[r].pc \in {"write", "idle"}
                  /\ req'[r].pc = "write" => req'[r].writes = req[r].writes
                  /\ req'[r].pc = "idle" => (AnswersFor(r) /\ res'[1].writes = 1)
            /\ (Answering /\ res'[1].slot = r) => (req[r].pc # "idle" /\ req'[r].pc = "idle")]_vars

\* a PUT whose insert failed in the store has been answered: the insert was
\* issued once and the row is not there
C16_Witness ==
    \E a \in Sent : /\ a.kind = "PUT" /\ a.fault = "io" /\ a.found = 0 /\ a.writes = 1
                    /\ CountOf(incidents, a.body.case_number) = 0
                    /\ incidents # EmptyBag

\* the delete of slot r is outstanding, its pre-check having found the row,
\* and the row is gone
StaleDelete(r) ==
    /\ req[r].kind = "DELETE" /\ req[r].pc = "write" /\ req[r].found > 0
    /\ CountOf(incidents, req[r].body.case_number) = 0

\* C17: a DELETE answered 200 'OK' is one whose own pre-check found a row and
\* that issued its delete; and a delete that completes without a store failure
\* when no row has its case number any more, which happens only to a request
\* that was in flight with another, is answered 200 'OK' all the same and
\* removes nothing.
C17_DeleteNotAtomic ==
    /\ [](\A a \in Sent : (a.kind = "DELETE" /\ a.status = 200) =>
            (a.text = "OK" /\ a.found > 0 /\ a.writes = 1))
    /\ [][\A r \in Slots :
            (StaleDelete(r) /\ Answering /\ res'[1].slot = r /\ res'[1].fault = "none") =>
                /\ res'[1].status = 200 /\ res'[1].text = "OK"
                /\ res'[1].overlapped
                /\ incidents' = incidents]_vars

\* two DELETEs of the same case number both passed the pre-check; the first has
\* just been answered 'OK' and removed the row, the second is still to run
C17_Witness ==
    \E r \in Slots : \E a \in Sent :
        /\ StaleDelete(r)
        /\ a.kind = "DELETE" /\ a.status = 200 /\ a.body = req[r].body
        /\ a.found = 1 /\ req[r].found = 1

\* C18: every store operation issued completing, a mutation request in flight
\* is eventually answered and a GET request in flight is eventually answered,
\* whatever the other requests do; and a request that is in flight has one
\* store operation outstanding, its pre-check read or its write, whose
\* completion is all it waits for.
C18_EveryRequestAnswered ==
    /\ \A r \in MutationSlots : InFlight(r) ~> (\E a \in Sent : a.slot = r)
    /\ (rd.pc = "select") ~> Answered
    /\ [](\A r \in MutationSlots :
            InFlight(r) => (req[r].pc \in {"check", "write"}
                            /\ (res = <<>> => ENABLED StoreAnswers(r))))
    /\ [](rd # NoRead => (rd.pc \in {"select", "done"}
                          /\ (rd.pc = "select" => ENABLED ReadAnswers)))

\* a mutation that wrote has just been answered and the GET that was in flight
\* with it has been answered too
C18_Witness ==
    /\ Answered /\ rd.endpoint = "incidents" /\ rd.status = 200
    /\ \E a \in Sent : a.kind = "PUT" /\ a.writes = 1 /\ a.status = 200

\* C19: a response is written by a request that is in flight, and the step
\* that writes it ends the handler: the slot holds nothing afterwards, so no
\* second response follows for the same request.  One response is written per
\* step and it is not replaced before it is sent.  It is either 200 'OK' or 500
\* with a failure message, never both.  A GET request is answered in the one
\* step in which its read completes, and its answer does not change afterwards.
C19_AnsweredAtMostOnce ==
    /\ [](/\ Len(res) <= 1
          /\ \A a \in Sent : /\ a.status \in {200, 500}
                             /\ (a.status = 200) <=> (a.text = "OK")
                             /\ (a.status = 500) <=> (a.text \in
                                   {"Case number already exists", "Case number does not exist",
                                    "Error inserting incident", "Error deleting incident"}))
    /\ [][/\ Answering =>
                /\ Len(res') = 1
                /\ req[res'[1].slot].pc # "idle"
                /\ req'[res'[1].slot].pc = "idle"
          /\ res # <<>> => res' \in {res, <<>>}
          /\ (rd.pc = "select" /\ rd' # rd) => (rd'.pc = "done" /\ rd'.status \in {200, 500})
          /\ rd.pc = "done" => rd' \in {rd, NoRead}
          /\ rd = NoRead => (rd' = NoRead \/ rd'.pc = "select")]_vars

\* a DELETE has left by its early return and a GET by its catch branch
C19_Witness ==
    /\ \E a \in Sent : a.text = "Case number does not exist" /\ a.writes = 0
    /\ Answered /\ rd.status = 500 /\ rd.fault = "sql"

(***************************************************************************)
(* Claim on the binding of the parameters                                  *)
(***************************************************************************)
\* the parameters bound to the n '?' that follow the fragment at position i
BoundFrom(sql, params, i, n) ==
    SubSeq(params, CountOfFragment(SubSeq(sql, 1, i), "?") + 1,
                   CountOfFragment(SubSeq(sql, 1, i), "?") + n)

\* the values a present filter supplies, in their order
ValuesOf(f, q) == IF f.list THEN ElementsOf(q[f.key][1]) ELSE <<q[f.key][1]>>

\* the position of a filter in the fixed order of its endpoint
RankOf(endpoint, f) == CHOOSE i \in 1..Len(FiltersOf(endpoint)) : FiltersOf(endpoint)[i] = f

\* C20: the statement has as many '?' as the parameter list has elements; the
\* clauses of the filters present stand in the order start_date, end_date,
\* code, grid, neighborhood; and the '?' of each clause are bound, in order, to
\* the values of the filter of that clause.
C20_PlaceholdersBoundInOrder ==
    Built =>
        LET present == PresentFilters(rd.endpoint, rd.query)
        IN  /\ CountOfFragment(rd.sql, "?") = Len(rd.params)
            /\ \A f, g \in present :
                  RankOf(rd.endpoint, f) < RankOf(rd.endpoint, g) =>
                     FirstOf(rd.sql, {f.head}) < FirstOf(rd.sql, {g.head})
            /\ \A f \in present :
                  /\ \A k \in 1..Len(ValuesOf(f, rd.query)) :
                        rd.sql[FirstOf(rd.sql, {f.head}) + 2 * k - 1] = "?"
                  /\ BoundFrom(rd.sql, rd.params, FirstOf(rd.sql, {f.head}),
                               Len(ValuesOf(f, rd.query))) = ValuesOf(f, rd.query)

\* the five filters given, with two different dates and lists of two and three
\* elements: eight parameters at least, the dates first
C20_Witness ==
    /\ Built /\ rd.endpoint = "incidents"
    /\ rd.query.start_date = Given(D_0105) /\ rd.query.end_date = Given(D_0229)
    /\ rd.query.code = Given(<<"1", ",", ",", "2">>)
    /\ rd.query.grid = Given(<<"2", ",", " ", "1">>)
    /\ Truthy(rd.query.neighborhood)
    /\ Len(rd.params) >= 8
    /\ rd.params[1] = D_0105 /\ rd.params[2] = D_0229

====
